---- MODULE Spec2Model ----
(***************************************************************************)
(* Model of the GitHub stats aggregator: the card handler with its         *)
(* highest-stars cache, the retrying star fetch, the contribution fetch    *)
(* with its private/public fallback, the earlier handler of api/index.js   *)
(* and the local express route that wraps the handler.                     *)
(*                                                                         *)
(* Strings that are taken apart or joined by the code (identifiers, cache  *)
(* keys, environment variable names and values) are sequences of atoms, so *)
(* that joining two identifiers is sequence concatenation.                 *)
(***************************************************************************)
EXTENDS Integers, Sequences, FiniteSets, TLC

\* ------------------------------------------------------------------ bounds
NumReq == 2        \* request slots that may be in flight at the same time
MaxStars == 1      \* largest star count the star service answers with
MaxContrib == 0    \* index of the largest contribution sample answered
MaxPages == 1      \* repository pages an organization answer may span

\* ------------------------------------------------------- program constants
Retries == 3
BackoffUnit == 1000
Prefix == "HIGHEST_STARS_"
DefaultUser == <<"aligheshlaghi97">>
DefaultOrg == <<"Finance-Insight-Lab">>
Separator == <<"_">>
NoStore == "no-store, no-cache, must-revalidate, max-age=0"
LongMaxAge == "s-maxage=3600, stale-while-revalidate"
SvgType == "image/svg+xml"
JsonType == "application/json"

Undefined == <<"undefined">>

\* ---------------------------------------------------------------- helpers
Max(a, b) == IF a >= b THEN a ELSE b

\* The outcome of a call: it returns a value, or it throws the error e (value
\* is then a placeholder of the type the call returns).
Return(v) == [kind |-> "return", value |-> v, error |-> ""]
Throw(e, v) == [kind |-> "throw", value |-> v, error |-> e]

\* ---------------------------------------------------------- parseInt(s, 10)
Digits == <<"0", "1", "2", "3", "4", "5", "6", "7", "8", "9">>

IsDigit(c) == \E i \in 1..10 : Digits[i] = c

DigitValue(c) == (CHOOSE i \in 1..10 : Digits[i] = c) - 1

\* a number, or NaN
Num(n) == [isNaN |-> FALSE, n |-> n]
NaN == [isNaN |-> TRUE, n |-> 0]

RECURSIVE ParseDigits(_, _, _)
\* the value of the longest prefix of digits of s, read after acc; seen tells
\* whether a digit has been read
ParseDigits(s, acc, seen) ==
  IF s # <<>> /\ IsDigit(Head(s))
    THEN ParseDigits(Tail(s), 10 * acc + DigitValue(Head(s)), TRUE)
    ELSE IF seen THEN Num(acc) ELSE NaN

RECURSIVE SkipSpace(_)
SkipSpace(s) == IF s # <<>> /\ Head(s) = " " THEN SkipSpace(Tail(s)) ELSE s

parseInt(str) ==
  LET s == SkipSpace(str)
      neg == s # <<>> /\ Head(s) = "-"
      rest == IF s # <<>> /\ Head(s) \in {"-", "+"} THEN Tail(s) ELSE s
      mag == ParseDigits(rest, 0, FALSE)
  IN IF mag.isNaN THEN NaN ELSE IF neg THEN Num(0 - mag.n) ELSE mag

\* ------------------------------------------------------ the process environment
\* An environment maps variable names to values. A name is a sequence of
\* atoms; a value is a sequence of characters.
Name(prefix, user, org) == <<prefix>> \o user \o Separator \o org

TokenName == <<"GITHUB_TOKEN">>

NoEnv == [n \in {} |-> <<>>]

TokenEnv == [n \in {TokenName} |-> <<"g", "h", "p">>]

SeedNames ==
  { Name(Prefix, DefaultUser, DefaultOrg),
    Name(Prefix, DefaultUser \o <<"_", "x">>, DefaultOrg),
    Name(Prefix, DefaultUser, <<"x", "_", "x", "_">> \o DefaultOrg),
    Name(Prefix, DefaultUser, <<"y">>),
    Name("LOWEST_STARS_", DefaultUser, DefaultOrg) }

\* seeds: a positive one, a zero one, a negative one, a non-numeric one, one
\* without the prefix
SeedValue(n) ==
  IF n = Name(Prefix, DefaultUser, DefaultOrg) THEN <<"3">>
  ELSE IF n = Name(Prefix, DefaultUser \o <<"_", "x">>, DefaultOrg) THEN <<"0">>
  ELSE IF n = Name("LOWEST_STARS_", DefaultUser, DefaultOrg) THEN <<"7">>
  ELSE IF n = Name(Prefix, DefaultUser, <<"y">>) THEN <<"-", "2">>
  ELSE <<"x", "1">>

SeedEnvEmptyToken ==
  [n \in SeedNames \cup {TokenName} |-> IF n = TokenName THEN <<>> ELSE SeedValue(n)]

Envs == {NoEnv, TokenEnv, SeedEnvEmptyToken}

\* process.env.X : the value, or undefined
EnvGet(e, n) == IF n \in DOMAIN e THEN e[n] ELSE Undefined

\* !x for a string or undefined
Falsy(x) == x = Undefined \/ x = <<>>

startsWith(n, prefix) == n # <<>> /\ Head(n) = prefix

\* key.replace(prefix, ""): the first occurrence of the prefix is removed
RECURSIVE replaceFirst(_, _)
replaceFirst(n, prefix) ==
  IF n = <<>> THEN <<>>
  ELSE IF Head(n) = prefix THEN Tail(n)
  ELSE <<Head(n)>> \o replaceFirst(Tail(n), prefix)

\* initializeCacheFromEnv taking every value that is a number
initializeCacheAnyNumber(e) ==
  LET seeded == { n \in DOMAIN e :
                    /\ startsWith(n, Prefix)
                    /\ ~parseInt(e[n]).isNaN }
      keys == { replaceFirst(n, Prefix) : n \in seeded }
  IN [k \in keys |->
        parseInt(e[CHOOSE n \in seeded : replaceFirst(n, Prefix) = k]).n]

\* the cache entries initializeCacheFromEnv creates from the environment e
initializeCacheFromEnv(e) ==
  LET seeded == { n \in DOMAIN e :
                    /\ startsWith(n, Prefix)
                    /\ ~parseInt(e[n]).isNaN
                    /\ parseInt(e[n]).n > 0 }
      keys == { replaceFirst(n, Prefix) : n \in seeded }
  IN [k \in keys |->
        parseInt(e[CHOOSE n \in seeded : replaceFirst(n, Prefix) = k]).n]

\* ------------------------------------------------------------- star fetch
\* What one GET of the star service ends with:
\*   error    the request rejects (network error, timeout, HTTP error status)
\*   nodata   a response whose data is empty
\*   nostars  a response whose data has no numeric stars field
\*   number   a response whose data.stars is the number stars
StarOutcome(k, n) == [kind |-> k, stars |-> n]

StarOutcomes ==
  {StarOutcome(k, 0) : k \in {"error", "nodata", "nostars"}}
    \cup {StarOutcome("number", n) : n \in (0 - 1)..MaxStars}

Continue(ms) == [kind |-> "continue", value |-> ms, error |-> ""]

\* starCatch trying again after every failed attempt
starCatchNoLimit(attempt, retries) == Continue(BackoffUnit * attempt)

\* starCatch letting the error of the last attempt out
starCatchRethrows(attempt, retries) ==
  IF attempt < retries THEN Continue(BackoffUnit * attempt)
  ELSE Throw("request failed", 0)

\* the catch block of one attempt
starCatch(attempt, retries) ==
  IF attempt < retries THEN Continue(BackoffUnit * attempt) ELSE Return(0)

\* starTry sleeping the same time after every attempt
starTryFlatBackoff(attempt, retries, o) ==
  LET data == o.kind \in {"nostars", "number"}
      isNumber == o.kind = "number"
  IN IF data /\ isNumber /\ o.stars > 0 THEN Return(o.stars)
     ELSE IF data /\ isNumber /\ o.stars = 0
       THEN IF attempt = retries THEN Return(0) ELSE Continue(BackoffUnit)
     ELSE IF attempt < retries THEN Continue(BackoffUnit)
     ELSE Return(0)

\* the try block of one attempt, given the response o
starTry(attempt, retries, o) ==
  LET data == o.kind \in {"nostars", "number"}
      isNumber == o.kind = "number"
  IN IF data /\ isNumber /\ o.stars > 0 THEN Return(o.stars)
     ELSE IF data /\ isNumber /\ o.stars = 0
       THEN IF attempt = retries THEN Return(0)
            ELSE Continue(BackoffUnit * attempt)
     ELSE IF attempt < retries THEN Continue(BackoffUnit * attempt)
     ELSE Return(0)

\* one iteration of the retry loop: return, or wait and go on
starAttempt(attempt, retries, o) ==
  IF o.kind = "error" THEN starCatch(attempt, retries)
  ELSE starTry(attempt, retries, o)

RECURSIVE starLoop(_, _, _)
starLoop(attempt, retries, script) ==
  IF attempt > retries THEN Return(0)
  ELSE LET s == starAttempt(attempt, retries, script[attempt])
       IN IF s.kind = "continue" THEN starLoop(attempt + 1, retries, script)
          ELSE s

\* the call as a whole, the attempts ending as script says
fetchStarsFromExternalAPI(script) == starLoop(1, Retries, script)

StarScripts == [1..Retries -> StarOutcomes]

StarResults == {fetchStarsFromExternalAPI(s) : s \in StarScripts}

\* ----------------------------------------------------- contribution fetch
ZeroContributions ==
  [totalCommits |-> 0, totalPRs |-> 0, totalIssues |-> 0, contributedTo |-> 0]

\* the contributionsCollection of an answer
Collection(c) ==
  [totalCommitContributions |-> c + 3,
   totalPullRequestContributions |-> c + 2,
   totalIssueContributions |-> c + 1,
   totalRepositoriesWithContributedCommits |-> c]

Collections == {Collection(c) : c \in 0..MaxContrib}

\* What one POST to the GraphQL endpoint ends with:
\*   reject  the request rejects (network, 401, 403, ...)
\*   nobody  a response without a data object
\*   body    a response body: errors tells whether it carries API errors, and
\*           data is none (no data field), nouser (data.user is null),
\*           nocoll (no contributionsCollection) or full
Post(k, e, d, c) == [kind |-> k, errors |-> e, data |-> d, coll |-> c]

PostOutcomes ==
  {Post("reject", FALSE, "none", Collection(0)),
   Post("nobody", FALSE, "none", Collection(0))}
    \cup {Post("body", e, d, Collection(0)) :
            e \in BOOLEAN, d \in {"none", "nouser", "nocoll"}}
    \cup {Post("body", e, "full", c) : e \in BOOLEAN, c \in Collections}

\* the inner try: the private query and the check of its answer
privateTry(priv) ==
  IF priv.kind = "reject" THEN Throw("privateError", priv)
  ELSE IF priv.kind = "nobody" THEN Throw("TypeError", priv)
  ELSE IF priv.data = "full" THEN Return(priv)
  ELSE Throw("Private data not available", priv)

\* the inner catch: the public query
publicTry(pub) ==
  IF pub.kind = "reject" THEN Throw("publicError", pub) ELSE Return(pub)

\* useResponse without the check of the errors of the response
useResponseIgnoresErrors(response) ==
  IF response.kind = "nobody" THEN Throw("TypeError", ZeroContributions)
  ELSE IF response.data = "none" THEN Throw("TypeError", ZeroContributions)
  ELSE IF response.data \in {"nouser", "nocoll"} THEN Return(ZeroContributions)
  ELSE Return([totalCommits |-> response.coll.totalCommitContributions,
               totalPRs |-> response.coll.totalPullRequestContributions,
               totalIssues |-> response.coll.totalIssueContributions,
               contributedTo |->
                 response.coll.totalRepositoriesWithContributedCommits])

\* the rest of the outer try, once a response is at hand
useResponse(response) ==
  IF response.kind = "nobody" THEN Throw("TypeError", ZeroContributions)
  ELSE IF response.errors THEN Return(ZeroContributions)
  ELSE IF response.data = "none" THEN Throw("TypeError", ZeroContributions)
  ELSE IF response.data \in {"nouser", "nocoll"} THEN Return(ZeroContributions)
  ELSE Return([totalCommits |-> response.coll.totalCommitContributions,
               totalPRs |-> response.coll.totalPullRequestContributions,
               totalIssues |-> response.coll.totalIssueContributions,
               contributedTo |->
                 response.coll.totalRepositoriesWithContributedCommits])

\* contributionsCatch throwing the error on
contributionsRethrow(r) == r

\* the outer catch
contributionsCatch(r) ==
  IF r.kind = "throw" THEN Return(ZeroContributions) ELSE r

\* the call as a whole: priv and pub are what the two queries end with
fetchPersonalContributionsFromGitHub(token, priv, pub) ==
  IF Falsy(token) THEN Return(ZeroContributions)
  ELSE LET first == privateTry(priv)
           second == IF first.kind = "throw" THEN publicTry(pub) ELSE first
       IN contributionsCatch(
            IF second.kind = "throw" THEN Throw(second.error, ZeroContributions)
            ELSE useResponse(second.value))

ContributionResults(token) ==
  {fetchPersonalContributionsFromGitHub(token, priv, pub) :
     priv \in PostOutcomes, pub \in PostOutcomes}

ResultsWithToken == ContributionResults(<<"g", "h", "p">>)

ResultsWithoutToken == ContributionResults(Undefined)

\* ------------------------------------------------------------ the renderer
\* The SVG document, as the values the template is filled with. Vertical
\* positions are in half pixels, since the rows sit on half line heights.
Row(label, value, y2) == [label |-> label, value |-> value, y2 |-> y2]

\* generateSVG with rows twice as high on the same canvas
generateSVGTallRows(data) ==
  LET width == 450
      height == 240
      lineHeight == 44
      titleHeight == 25
      contentHeight == 5 * lineHeight
      totalContentHeight == titleHeight + contentHeight
      availableSpace == height - totalContentHeight
      topMargin == availableSpace \div 2
      y2(i) == 2 * (topMargin + titleHeight) + lineHeight * (2 * i + 1)
  IN [width |-> width, height |-> height, titleY2 |-> 2 * topMargin,
      year |-> 0,
      rows |-> << Row("Total Stars", data.totalStars, y2(0)),
                  Row("Total Commits (Last 365 Days)", data.totalCommits, y2(1)),
                  Row("Total PRs", data.totalPRs, y2(2)),
                  Row("Total Issues", data.totalIssues, y2(3)),
                  Row("Contributed to", data.totalContributedTo, y2(4)) >>]

\* the renderer of the card handler
generateSVG(data) ==
  LET width == 450
      height == 240
      lineHeight == 22
      titleHeight == 25
      contentHeight == 5 * lineHeight
      totalContentHeight == titleHeight + contentHeight
      availableSpace == height - totalContentHeight
      topMargin == availableSpace \div 2
      y2(i) == 2 * (topMargin + titleHeight) + lineHeight * (2 * i + 1)
  IN [width |-> width, height |-> height, titleY2 |-> 2 * topMargin,
      year |-> 0,
      rows |-> << Row("Total Stars", data.totalStars, y2(0)),
                  Row("Total Commits (Last 365 Days)", data.totalCommits, y2(1)),
                  Row("Total PRs", data.totalPRs, y2(2)),
                  Row("Total Issues", data.totalIssues, y2(3)),
                  Row("Contributed to", data.totalContributedTo, y2(4)) >>]

\* ------------------------------------------------------------- responses
\* What the caller receives: the status, the headers and the body. card is
\* the SVG document of an image response, info the payload of a JSON one.
NoCard == generateSVG([totalStars |-> 0, totalCommits |-> 0, totalPRs |-> 0,
                       totalIssues |-> 0, totalContributedTo |-> 0])

NoQuery == [user |-> Undefined, org |-> Undefined, test |-> Undefined]

NoInfo ==
  [message |-> "", timestamp |-> "", githubToken |-> "", query |-> NoQuery,
   error |-> ""]

NoResponse ==
  [kind |-> "none", status |-> 0, contentType |-> "", cacheControl |-> "",
   card |-> NoCard, info |-> NoInfo]

SvgResponse(cacheControl, svg) ==
  [kind |-> "svg", status |-> 200, contentType |-> SvgType,
   cacheControl |-> cacheControl, card |-> svg, info |-> NoInfo]

JsonResponse(status, contentType, info) ==
  [kind |-> "json", status |-> status, contentType |-> contentType,
   cacheControl |-> "", card |-> NoCard, info |-> info]

\* ------------------------------------------------------- the card handler
Query(user, org, test) == [user |-> user, org |-> org, test |-> test]

\* x || d
OrDefault(x, d) == IF Falsy(x) THEN d ELSE x

cacheKeyOf(personalUsername, organizationName) ==
  personalUsername \o Separator \o organizationName

\* highestStored not seeing the entry another request has written
highestStoredStale(cache, cacheKey) == 0

\* highestStarsCache[cacheKey] || 0
highestStored(cache, cacheKey) ==
  IF cacheKey \in DOMAIN cache THEN cache[cacheKey] ELSE 0

\* cache with cache[k] = v
Put(cache, k, v) ==
  [x \in DOMAIN cache \cup {k} |-> IF x = k THEN v ELSE cache[x]]

\* reconcile showing a calculated total that is lower than the stored one
reconcileShowsLower(calculatedTotalStars, highestStoredStars) ==
  IF calculatedTotalStars > highestStoredStars
    THEN [totalStars |-> calculatedTotalStars, shouldCache |-> TRUE,
          write |-> TRUE]
  ELSE IF calculatedTotalStars = 0
    THEN IF highestStoredStars > 0
           THEN [totalStars |-> highestStoredStars, shouldCache |-> FALSE,
                 write |-> FALSE]
           ELSE [totalStars |-> 0, shouldCache |-> FALSE, write |-> FALSE]
  ELSE [totalStars |-> calculatedTotalStars, shouldCache |-> TRUE,
        write |-> calculatedTotalStars > 0 /\ highestStoredStars = 0]

\* reconcile storing every positive calculated total
reconcileWritesLower(calculatedTotalStars, highestStoredStars) ==
  IF calculatedTotalStars > highestStoredStars
    THEN [totalStars |-> calculatedTotalStars, shouldCache |-> TRUE,
          write |-> TRUE]
  ELSE IF calculatedTotalStars = 0
    THEN IF highestStoredStars > 0
           THEN [totalStars |-> highestStoredStars, shouldCache |-> FALSE,
                 write |-> FALSE]
           ELSE [totalStars |-> 0, shouldCache |-> FALSE, write |-> FALSE]
  ELSE IF calculatedTotalStars < highestStoredStars
    THEN [totalStars |-> highestStoredStars, shouldCache |-> FALSE,
          write |-> TRUE]
  ELSE [totalStars |-> calculatedTotalStars, shouldCache |-> TRUE,
        write |-> calculatedTotalStars > 0 /\ highestStoredStars = 0]

\* reconcile showing a calculated zero
reconcileShowsZero(calculatedTotalStars, highestStoredStars) ==
  IF calculatedTotalStars > highestStoredStars
    THEN [totalStars |-> calculatedTotalStars, shouldCache |-> TRUE,
          write |-> TRUE]
  ELSE IF calculatedTotalStars = 0
    THEN [totalStars |-> 0, shouldCache |-> FALSE, write |-> FALSE]
  ELSE IF calculatedTotalStars < highestStoredStars
    THEN [totalStars |-> highestStoredStars, shouldCache |-> FALSE,
          write |-> FALSE]
  ELSE [totalStars |-> calculatedTotalStars, shouldCache |-> TRUE,
        write |-> calculatedTotalStars > 0 /\ highestStoredStars = 0]

\* reconcile storing a calculated zero for a key that has no entry
reconcileStoresZero(calculatedTotalStars, highestStoredStars) ==
  IF calculatedTotalStars > highestStoredStars
    THEN [totalStars |-> calculatedTotalStars, shouldCache |-> TRUE,
          write |-> TRUE]
  ELSE IF calculatedTotalStars = 0
    THEN IF highestStoredStars > 0
           THEN [totalStars |-> highestStoredStars, shouldCache |-> FALSE,
                 write |-> FALSE]
           ELSE [totalStars |-> 0, shouldCache |-> FALSE, write |-> TRUE]
  ELSE IF calculatedTotalStars < highestStoredStars
    THEN [totalStars |-> highestStoredStars, shouldCache |-> FALSE,
          write |-> FALSE]
  ELSE [totalStars |-> calculatedTotalStars, shouldCache |-> TRUE,
        write |-> calculatedTotalStars > 0 /\ highestStoredStars = 0]

\* The if-chain that decides the total to show: totalStars, shouldCache, and
\* whether highestStarsCache[cacheKey] is assigned calculatedTotalStars.
reconcile(calculatedTotalStars, highestStoredStars) ==
  IF calculatedTotalStars > highestStoredStars
    THEN [totalStars |-> calculatedTotalStars, shouldCache |-> TRUE,
          write |-> TRUE]
  ELSE IF calculatedTotalStars = 0
    THEN IF highestStoredStars > 0
           THEN [totalStars |-> highestStoredStars, shouldCache |-> FALSE,
                 write |-> FALSE]
           ELSE [totalStars |-> 0, shouldCache |-> FALSE, write |-> FALSE]
  ELSE IF calculatedTotalStars < highestStoredStars
    THEN [totalStars |-> highestStoredStars, shouldCache |-> FALSE,
          write |-> FALSE]
  ELSE [totalStars |-> calculatedTotalStars, shouldCache |-> TRUE,
        write |-> calculatedTotalStars > 0 /\ highestStoredStars = 0]

\* cacheControlOf looking at the total only
cacheControlByTotal(totalStars, shouldCache) ==
  IF totalStars = 0 THEN NoStore ELSE LongMaxAge

\* the Cache-Control header of the card
cacheControlOf(totalStars, shouldCache) ==
  IF totalStars = 0 \/ ~shouldCache THEN NoStore ELSE LongMaxAge

\* the locals of the handler when it sends the card
Locals(impl, key, calc, stored, d) ==
  [impl |-> impl, cacheKey |-> key, calculatedTotalStars |-> calc,
   highestStoredStars |-> stored, totalStars |-> d.totalStars,
   shouldCache |-> d.shouldCache, write |-> d.write]

NoLocals ==
  Locals("none", <<>>, 0, 0,
         [totalStars |-> 0, shouldCache |-> FALSE, write |-> FALSE])

\* What a run of a handler ends with: it threw or not, the cache it leaves,
\* the response it sent and the locals it computed.
Outcome(threw, cache, response, locals) ==
  [threw |-> threw, cache |-> cache, res |-> response, locals |-> locals]

\* testEndpoint reporting the credential as set whatever it is
testEndpointTokenSet(token, query, now) ==
  JsonResponse(200, JsonType,
               [message |-> "Test endpoint working", timestamp |-> now,
                githubToken |-> "Set", query |-> query, error |-> ""])

\* the diagnostic branch of the handler; now is new Date().toISOString()
testEndpoint(token, query, now) ==
  JsonResponse(200, JsonType,
               [message |-> "Test endpoint working", timestamp |-> now,
                githubToken |-> IF Falsy(token) THEN "Not set" ELSE "Set",
                query |-> query, error |-> ""])

\* cardHandler leaving the stars of the organization out of the total
cardHandlerDropsOrg(cache, query, personalStars, orgStars, personalContributions) ==
  IF \E f \in {personalStars, orgStars} : f.kind = "throw"
    THEN Outcome(TRUE, cache, NoResponse, NoLocals)
  ELSE IF personalContributions.kind = "throw"
    THEN Outcome(TRUE, cache, NoResponse, NoLocals)
  ELSE
    LET personalUsername == OrDefault(query.user, DefaultUser)
        organizationName == OrDefault(query.org, DefaultOrg)
        calculatedTotalStars == personalStars.value
        cacheKey == cacheKeyOf(personalUsername, organizationName)
        highestStoredStars == highestStored(cache, cacheKey)
        d == reconcile(calculatedTotalStars, highestStoredStars)
        combinedData ==
          [totalStars |-> d.totalStars,
           totalCommits |-> personalContributions.value.totalCommits,
           totalPRs |-> personalContributions.value.totalPRs,
           totalIssues |-> personalContributions.value.totalIssues,
           totalContributedTo |-> personalContributions.value.contributedTo]
    IN Outcome(FALSE,
               IF d.write THEN Put(cache, cacheKey, calculatedTotalStars)
               ELSE cache,
               SvgResponse(cacheControlOf(d.totalStars, d.shouldCache),
                           generateSVG(combinedData)),
               Locals("card", cacheKey, calculatedTotalStars,
                      highestStoredStars, d))

\* The handler from the point where Promise.all settles: personalStars,
\* orgStars and personalContributions are what the three fetches ended with.
cardHandler(cache, query, personalStars, orgStars, personalContributions) ==
  IF \E f \in {personalStars, orgStars} : f.kind = "throw"
    THEN Outcome(TRUE, cache, NoResponse, NoLocals)
  ELSE IF personalContributions.kind = "throw"
    THEN Outcome(TRUE, cache, NoResponse, NoLocals)
  ELSE
    LET personalUsername == OrDefault(query.user, DefaultUser)
        organizationName == OrDefault(query.org, DefaultOrg)
        calculatedTotalStars == personalStars.value + orgStars.value
        cacheKey == cacheKeyOf(personalUsername, organizationName)
        highestStoredStars == highestStored(cache, cacheKey)
        d == reconcile(calculatedTotalStars, highestStoredStars)
        combinedData ==
          [totalStars |-> d.totalStars,
           totalCommits |-> personalContributions.value.totalCommits,
           totalPRs |-> personalContributions.value.totalPRs,
           totalIssues |-> personalContributions.value.totalIssues,
           totalContributedTo |-> personalContributions.value.contributedTo]
    IN Outcome(FALSE,
               IF d.write THEN Put(cache, cacheKey, calculatedTotalStars)
               ELSE cache,
               SvgResponse(cacheControlOf(d.totalStars, d.shouldCache),
                           generateSVG(combinedData)),
               Locals("card", cacheKey, calculatedTotalStars,
                      highestStoredStars, d))

\* The route of the local server: the handler runs inside try/catch, and an
\* exception becomes a 500 JSON response.
route(o) ==
  IF o.threw
    THEN Outcome(FALSE, o.cache,
                 JsonResponse(500, JsonType,
                              [message |-> "", timestamp |-> "",
                               githubToken |-> "", query |-> NoQuery,
                               error |-> "Internal server error"]),
                 o.locals)
    ELSE o

\* ------------------------------------------- the handler of api/index.js
Repo(stars, fork) == [stargazerCount |-> stars, isFork |-> fork]

\* the repository lists an answer may carry
NodeLists ==
  {<<>>, <<Repo(MaxStars, FALSE), Repo(MaxStars, TRUE)>>}
    \cup {<<Repo(n, f)>> : n \in 0..MaxStars, f \in BOOLEAN}

RECURSIVE ownStars(_)
\* the stars of the repositories of nodes that are not forks
ownStars(nodes) ==
  IF nodes = <<>> THEN 0
  ELSE (IF Head(nodes).isFork THEN 0 ELSE Head(nodes).stargazerCount)
         + ownStars(Tail(nodes))

\* What one POST ends with, for both queries of fetchGitHubData:
\*   reject, nobody, errors (a body with API errors), noentity (the user or
\*   organization is null), nostarred (a user without starredRepositories),
\*   entity (the user or organization, with its repositories)
Answer(k, nodes, next, c) ==
  [kind |-> k, nodes |-> nodes, hasNextPage |-> next, coll |-> c]

Answers ==
  {Answer(k, <<>>, FALSE, Collection(0)) :
     k \in {"reject", "nobody", "errors", "noentity", "nostarred"}}
    \cup {Answer("entity", n, h, c) :
            n \in NodeLists, h \in BOOLEAN, c \in Collections}

\* null, or the stats object fetchGitHubData returns
Stats(isNull, stars, c) ==
  [isNull |-> isNull, stars |-> stars, totalCommits |-> c.totalCommits,
   totalPRs |-> c.totalPRs, totalIssues |-> c.totalIssues,
   contributedTo |-> c.contributedTo]

Null == Stats(TRUE, 0, ZeroContributions)

\* the user branch of the try block
userBranch(a) ==
  IF a.kind = "reject" THEN Throw("request failed", Null)
  ELSE IF a.kind = "nobody" THEN Throw("TypeError", Null)
  ELSE IF a.kind = "errors" THEN Throw("GraphQL error for user.", Null)
  ELSE IF a.kind = "noentity" THEN Return(Null)
  ELSE IF a.kind = "nostarred" THEN Throw("TypeError", Null)
  ELSE Return(Stats(FALSE, ownStars(a.nodes),
                    [totalCommits |-> a.coll.totalCommitContributions,
                     totalPRs |-> a.coll.totalPullRequestContributions,
                     totalIssues |-> a.coll.totalIssueContributions,
                     contributedTo |->
                       a.coll.totalRepositoriesWithContributedCommits]))

RECURSIVE orgLoop(_, _, _)
\* the pagination loop of the organization branch, at page i of pages
orgLoop(pages, i, aggregatedStars) ==
  LET a == pages[i]
  IN IF a.kind = "reject" THEN Throw("request failed", Null)
     ELSE IF a.kind = "nobody" THEN Throw("TypeError", Null)
     ELSE IF a.kind = "errors"
       THEN Throw("GraphQL error for organization.", Null)
     ELSE IF a.kind = "noentity"
       THEN Return(Stats(FALSE, aggregatedStars, ZeroContributions))
     ELSE IF a.hasNextPage
       THEN orgLoop(pages, i + 1, aggregatedStars + ownStars(a.nodes))
     ELSE Return(Stats(FALSE, aggregatedStars + ownStars(a.nodes),
                       ZeroContributions))

\* the catch block of fetchGitHubData
githubCatch(r) == IF r.kind = "throw" THEN Return(Null) ELSE r

\* The call as a whole; pages are the answers to the successive requests
\* (one for a user).
fetchGitHubData(token, isOrganization, pages) ==
  IF Falsy(token) THEN Return(Null)
  ELSE githubCatch(IF isOrganization THEN orgLoop(pages, 1, 0)
                   ELSE userBranch(pages[1]))

\* the answers to a call: the last page an organization is asked for has no
\* next page
PageScripts ==
  {p \in [1..(MaxPages + 1) -> Answers] :
     p[MaxPages + 1].kind = "entity" => ~p[MaxPages + 1].hasNextPage}

GitHubResults(token, isOrganization) ==
  {fetchGitHubData(token, isOrganization, p) : p \in PageScripts}

UserStatsWithToken == GitHubResults(<<"g", "h", "p">>, FALSE)

OrgStatsWithToken == GitHubResults(<<"g", "h", "p">>, TRUE)

StatsWithoutToken == GitHubResults(Undefined, FALSE)

\* the renderer of api/index.js; year is the wall-clock year of the label
generateSVGLegacy(data, year) ==
  LET padding == 20
      lineHeight == 20
  IN [width |-> 450, height |-> 180, titleY2 |-> 2 * 20,
      year |-> year,
      rows |-> << Row("Total Stars", data.totalStars,
                      2 * padding + lineHeight * 4),
                  Row("Total Commits (year)", data.totalCommits,
                      2 * padding + lineHeight * 7),
                  Row("Total PRs", data.totalPRs,
                      2 * padding + lineHeight * 10),
                  Row("Total Issues", data.totalIssues,
                      2 * padding + lineHeight * 13),
                  Row("Contributed to", data.totalContributedTo,
                      2 * padding + lineHeight * 16) >>]

\* the handler of api/index.js from the point where Promise.all settles
legacyHandler(cache, personalStats, orgStats, year) ==
  IF personalStats.kind = "throw" \/ orgStats.kind = "throw"
    THEN Outcome(TRUE, cache, NoResponse, NoLocals)
  ELSE
    LET p == personalStats.value
        o == orgStats.value
        own == IF p.isNull THEN 0 ELSE p.stars
        totalStars == own + (IF o.isNull THEN 0 ELSE o.stars)
        combinedData ==
          [totalStars |-> totalStars,
           totalCommits |-> IF p.isNull THEN 0 ELSE p.totalCommits,
           totalPRs |-> IF p.isNull THEN 0 ELSE p.totalPRs,
           totalIssues |-> IF p.isNull THEN 0 ELSE p.totalIssues,
           totalContributedTo |-> IF p.isNull THEN 0 ELSE p.contributedTo]
    IN Outcome(FALSE, cache,
               SvgResponse(LongMaxAge, generateSVGLegacy(combinedData, year)),
               Locals("legacy", <<>>, totalStars, 0,
                      [totalStars |-> totalStars, shouldCache |-> TRUE,
                       write |-> FALSE]))

\* ------------------------------------------------------------ the inputs
\* The queries a caller sends: user and org are absent or an identifier, and
\* the identifiers are chosen so that two different (user, org) pairs join to
\* the same string; test is absent or "true".
OtherUser == DefaultUser \o <<"_", "x">>

OtherOrg == <<"x", "_">> \o DefaultOrg

Pairs == {<<Undefined, Undefined>>, <<Undefined, OtherOrg>>,
          <<OtherUser, Undefined>>}

TestValues == {Undefined, <<"true">>}

Queries == {Query(p[1], p[2], t) : p \in Pairs, t \in TestValues}

Years == {2025, 2026}

\* the readings of the wall clock, as ISO strings
Timestamps == {"2026-01-01T00:00:00.000Z", "2026-01-01T00:00:01.000Z"}

Keys ==
  {cacheKeyOf(OrDefault(p[1], DefaultUser), OrDefault(p[2], DefaultOrg)) :
     p \in Pairs}

\* ---------------------------------------------------------------- the state
VARIABLES
  env,                \* process.env
  GITHUB_TOKEN,       \* the credential read when the module is loaded
  highestStarsCache,  \* cache key -> highest total seen
  inflight,           \* (user, org) of the query -> the number of card
                      \* requests that await their fetches
  legacyInflight,     \* query -> the number of requests to the handler of
                      \* api/index.js that await their fetches
  res,                \* the response sent last
  last,               \* the locals of the handler run that sent it
  shown,              \* cache key -> the total shown last for it (history)
  handler,            \* the request followed step by step: where it is
  star,               \* its two star fetches, "personal" and "org"
  contrib             \* its contribution fetch

vars == <<env, GITHUB_TOKEN, highestStarsCache, inflight, legacyInflight, res,
          last, shown, handler, star, contrib>>

traced == <<handler, star, contrib>>

\* A star fetch: the attempt it is at, whether its request is out, it sleeps
\* or it is done, the sleep it is in, the requests sent and the time slept so
\* far, the answer to its last request, whether every answer so far lacked a
\* numeric stars field, and what the call ended with.
NoStarOutcome == StarOutcome("none", 0)

StarIdle ==
  [phase |-> "idle", attempt |-> 0, wait |-> 0, sent |-> 0, slept |-> 0,
   response |-> NoStarOutcome, malformedOnly |-> TRUE, result |-> Return(0)]

\* The contribution fetch: whether the private or the public query is out
\* or it is done, the queries sent, the response (while the public query is
\* out: the answer to the private one, if it was answered; at the end: the
\* response used, if any), and what the call ended with.
NoPost == Post("none", FALSE, "none", Collection(0))

ContribIdle ==
  [phase |-> "idle", sent |-> <<>>, response |-> NoPost,
   isPrivateData |-> FALSE, result |-> Return(ZeroContributions)]

HandlerIdle == [pc |-> "idle", query |-> NoQuery]

RECURSIVE Sum(_, _)
Sum(f, S) ==
  IF S = {} THEN 0
  ELSE LET x == CHOOSE y \in S : TRUE IN f[x] + Sum(f, S \ {x})

\* the requests in flight
Load(f) == Sum(f, DOMAIN f)

Init ==
  /\ env \in Envs
  /\ GITHUB_TOKEN = EnvGet(env, TokenName)
  /\ highestStarsCache = initializeCacheFromEnv(env)
  /\ inflight = [p \in Pairs |-> 0]
  /\ legacyInflight = [q \in Queries |-> 0]
  /\ res = NoResponse
  /\ last = NoLocals
  /\ shown = [k \in Keys |-> 0]
  /\ handler = HandlerIdle
  /\ star = [f \in {"personal", "org"} |-> StarIdle]
  /\ contrib = ContribIdle

\* A request with test=true: the handler answers at once.
TestRequest(q, now) ==
  /\ q.test = <<"true">>
  /\ res' = route(Outcome(FALSE, highestStarsCache,
                          testEndpoint(GITHUB_TOKEN, q, now), NoLocals)).res
  /\ last' = [NoLocals EXCEPT !.impl = "test"]
  /\ UNCHANGED <<env, GITHUB_TOKEN, highestStarsCache, inflight,
                 legacyInflight, shown, traced>>

\* A card request arrives: the handler starts the three fetches and awaits.
Arrive(q) ==
  /\ Load(inflight) < NumReq
  /\ q.test # <<"true">>
  /\ inflight' = [inflight EXCEPT ![<<q.user, q.org>>] = @ + 1]
  /\ UNCHANGED <<env, GITHUB_TOKEN, highestStarsCache, legacyInflight, res,
                 last, shown, traced>>

\* The three fetches of a request with the identifiers p have settled: the
\* handler reconciles the total with the cache and sends the card.
Complete(p, personalStars, orgStars, personalContributions) ==
  /\ inflight[p] > 0
  /\ LET o == route(cardHandler(highestStarsCache,
                                Query(p[1], p[2], Undefined),
                                personalStars, orgStars,
                                personalContributions))
     IN /\ highestStarsCache' = o.cache
        /\ res' = o.res
        /\ last' = o.locals
        /\ shown' = IF o.res.kind = "svg"
                      THEN [shown EXCEPT ![o.locals.cacheKey] =
                              o.locals.totalStars]
                      ELSE shown
  /\ inflight' = [inflight EXCEPT ![p] = @ - 1]
  /\ UNCHANGED <<env, GITHUB_TOKEN, legacyInflight, traced>>

Next ==
  \/ \E q \in Queries, now \in Timestamps : TestRequest(q, now)
  \/ \E q \in Queries : Arrive(q)
  \/ \E p \in Pairs, ps \in StarResults, os \in StarResults,
        c \in (IF Falsy(GITHUB_TOKEN) THEN ResultsWithoutToken
               ELSE ResultsWithToken) : Complete(p, ps, os, c)

Spec == Init /\ [][Next]_vars

\* ----------------------------------- the process serving api/index.js
\* A request arrives at the handler of api/index.js, which starts its two
\* fetches; it reads user and org of the query and has no test branch.
LegacyArrive(q) ==
  /\ Load(legacyInflight) < NumReq
  /\ legacyInflight' = [legacyInflight EXCEPT ![q] = @ + 1]
  /\ UNCHANGED <<env, GITHUB_TOKEN, highestStarsCache, inflight, res, last,
                 shown, traced>>

\* Its two fetches have settled: the handler adds up and sends the card.
LegacyComplete(q, personalStats, orgStats, year) ==
  /\ legacyInflight[q] > 0
  /\ LET o == route(legacyHandler(highestStarsCache, personalStats, orgStats,
                                  year))
     IN /\ highestStarsCache' = o.cache
        /\ res' = o.res
        /\ last' = o.locals
  /\ legacyInflight' = [legacyInflight EXCEPT ![q] = @ - 1]
  /\ UNCHANGED <<env, GITHUB_TOKEN, inflight, shown, traced>>

NextLegacy ==
  \/ \E q \in Queries : LegacyArrive(q)
  \/ \E q \in Queries,
        ps \in (IF Falsy(GITHUB_TOKEN) THEN StatsWithoutToken
                ELSE UserStatsWithToken),
        os \in (IF Falsy(GITHUB_TOKEN) THEN StatsWithoutToken
                ELSE OrgStatsWithToken),
        y \in Years : LegacyComplete(q, ps, os, y)

SpecLegacy == Init /\ [][NextLegacy]_vars

\* ------------------------------------------- one request, step by step
\* fetchStarsFromExternalAPI is called: it sends its first request.
starCall ==
  [StarIdle EXCEPT !.phase = "request", !.attempt = 1, !.sent = 1]

\* contribCall without the check of the credential
contribCallUnchecked(token) ==
  [ContribIdle EXCEPT !.phase = "private", !.sent = <<"private">>]

\* fetchPersonalContributionsFromGitHub is called: without a credential it
\* returns at once, with one it sends the private query.
contribCall(token) ==
  IF Falsy(token)
    THEN [ContribIdle EXCEPT !.phase = "done",
                             !.result = Return(ZeroContributions)]
    ELSE [ContribIdle EXCEPT !.phase = "private", !.sent = <<"private">>]

\* The handler is called with a card request: it calls the three fetches
\* and awaits them all.
Start(q) ==
  /\ handler.pc = "idle"
  /\ q.test # <<"true">>
  /\ handler' = [pc |-> "awaiting", query |-> q]
  /\ star' = [f \in {"personal", "org"} |-> starCall]
  /\ contrib' = contribCall(GITHUB_TOKEN)
  /\ UNCHANGED <<env, GITHUB_TOKEN, highestStarsCache, inflight,
                 legacyInflight, res, last, shown>>

\* The request of star fetch f ends with o: the fetch returns, or it starts
\* to sleep before the next attempt.
StarSettle(f, o) ==
  /\ star[f].phase = "request"
  /\ LET s == starAttempt(star[f].attempt, Retries, o)
         t == [star[f] EXCEPT
                 !.response = o,
                 !.malformedOnly = @ /\ o.kind \in {"nodata", "nostars"}]
     IN star' = [star EXCEPT ![f] =
                   IF s.kind = "continue"
                     THEN [t EXCEPT !.phase = "backoff", !.wait = s.value]
                     ELSE [t EXCEPT !.phase = "done", !.result = s]]
  /\ UNCHANGED <<env, GITHUB_TOKEN, highestStarsCache, inflight,
                 legacyInflight, res, last, shown, handler, contrib>>

\* The sleep of star fetch f is over: the loop goes to the next attempt and
\* sends its request, or ends when the attempts are used up.
StarWake(f) ==
  /\ star[f].phase = "backoff"
  /\ LET t == [star[f] EXCEPT !.slept = @ + star[f].wait, !.wait = 0,
                              !.attempt = @ + 1]
     IN star' = [star EXCEPT ![f] =
                   IF t.attempt <= Retries
                     THEN [t EXCEPT !.phase = "request", !.sent = @ + 1,
                                    !.response = NoStarOutcome]
                     ELSE [t EXCEPT !.phase = "done", !.result = Return(0)]]
  /\ UNCHANGED <<env, GITHUB_TOKEN, highestStarsCache, inflight,
                 legacyInflight, res, last, shown, handler, contrib>>

\* what the contribution fetch ends with once it has the response r, or the
\* error that left the inner try/catch
contribEnd(c, r) ==
  [c EXCEPT !.phase = "done",
            !.response = IF r.kind = "throw" THEN NoPost ELSE r.value,
            !.result = contributionsCatch(
                         IF r.kind = "throw"
                           THEN Throw(r.error, ZeroContributions)
                           ELSE useResponse(r.value))]

\* The private query ends with o: its data is used, or the public query is
\* sent.
PrivateSettle(o) ==
  /\ contrib.phase = "private"
  /\ LET first == privateTry(o)
     IN contrib' =
          IF first.kind = "throw"
            THEN [contrib EXCEPT !.phase = "public",
                                 !.response =
                                   IF o.kind = "reject" THEN @ ELSE o,
                                 !.sent = Append(@, "public")]
            ELSE contribEnd([contrib EXCEPT !.isPrivateData = TRUE], first)
  /\ UNCHANGED <<env, GITHUB_TOKEN, highestStarsCache, inflight,
                 legacyInflight, res, last, shown, handler, star>>

\* The public query ends with o.
PublicSettle(o) ==
  /\ contrib.phase = "public"
  /\ contrib' = contribEnd(contrib, publicTry(o))
  /\ UNCHANGED <<env, GITHUB_TOKEN, highestStarsCache, inflight,
                 legacyInflight, res, last, shown, handler, star>>

\* Settled going on as soon as one of the promises is fulfilled
SettledAny(st, c) ==
  \/ \E f \in {"personal", "org"} : st[f].phase = "done"
  \/ c.phase = "done"

\* the promises Promise.all waits for
Settled(st, c) ==
  \/ st["personal"].phase = "done" /\ st["org"].phase = "done"
       /\ c.phase = "done"
  \/ \E f \in {"personal", "org"} :
       st[f].phase = "done" /\ st[f].result.kind = "throw"
  \/ c.phase = "done" /\ c.result.kind = "throw"

\* Promise.all has settled: the handler goes on, reconciles the total with
\* the cache and sends the card.
Finish ==
  /\ handler.pc = "awaiting"
  /\ Settled(star, contrib)
  /\ LET thrown == IF contrib.phase = "done" THEN contrib.result
                   ELSE Throw("rejected", ZeroContributions)
         o == route(cardHandler(highestStarsCache, handler.query,
                                star["personal"].result, star["org"].result,
                                thrown))
     IN /\ highestStarsCache' = o.cache
        /\ res' = o.res
        /\ last' = o.locals
        /\ shown' = IF o.res.kind = "svg"
                      THEN [shown EXCEPT ![o.locals.cacheKey] =
                              o.locals.totalStars]
                      ELSE shown
  /\ handler' = [handler EXCEPT !.pc = "done"]
  /\ UNCHANGED <<env, GITHUB_TOKEN, inflight, legacyInflight, star, contrib>>

NextRequest ==
  \/ \E q \in Queries : Start(q)
  \/ \E f \in {"personal", "org"}, o \in StarOutcomes : StarSettle(f, o)
  \/ \E f \in {"personal", "org"} : StarWake(f)
  \/ \E o \in PostOutcomes : PrivateSettle(o)
  \/ \E o \in PostOutcomes : PublicSettle(o)
  \/ Finish

SpecRequest == Init /\ [][NextRequest]_vars

\* The same request when every outbound call settles in the end (by its
\* answer, its failure or its timeout), every timer fires, and the event
\* loop runs the continuation of a settled await.
Fairness ==
  /\ \A f \in {"personal", "org"} :
       /\ WF_vars(\E o \in StarOutcomes : StarSettle(f, o))
       /\ WF_vars(StarWake(f))
  /\ WF_vars(\E o \in PostOutcomes : PrivateSettle(o))
  /\ WF_vars(\E o \in PostOutcomes : PublicSettle(o))
  /\ WF_vars(Finish)

SpecRequestFair == SpecRequest /\ Fairness

\* ================================================================= claims
\* a step of Spec in which an awaiting card request reconciles and answers
CardStep == Load(inflight') < Load(inflight)

\* the value the cache holds for k before the step (0 if it holds none)
StoredBefore(k) ==
  IF k \in DOMAIN highestStarsCache THEN highestStarsCache[k] ELSE 0

\* the rows of the decision table that apply to (calculated, stored)
TableRows(c, s) ==
  {i \in 1..5 : \/ i = 1 /\ c > s
                \/ i = 2 /\ c = 0 /\ s > 0
                \/ i = 3 /\ c = 0 /\ s = 0
                \/ i = 4 /\ 0 < c /\ c < s
                \/ i = 5 /\ c = s /\ c > 0}

\* C1: whenever a card request reconciles, with calculated its fresh total
\* and stored the value the cache held for its key (0 if none), exactly one
\* row of the decision table applies and the total shown is the one of that
\* row: calculated if calculated > stored, stored if calculated = 0 < stored,
\* 0 if both are 0, stored if 0 < calculated < stored, calculated if
\* calculated = stored > 0; that is, the maximum of the two.
C1_DecisionTable ==
  [][CardStep =>
       LET c == last'.calculatedTotalStars
           s == StoredBefore(last'.cacheKey)
           d == last'.totalStars
       IN /\ Cardinality(TableRows(c, s)) = 1
          /\ 1 \in TableRows(c, s) => d = c
          /\ 2 \in TableRows(c, s) => d = s
          /\ 3 \in TableRows(c, s) => d = 0
          /\ 4 \in TableRows(c, s) => d = s
          /\ 5 \in TableRows(c, s) => d = c
          /\ d = Max(c, s)
          /\ res'.card.rows[1].value = d]_vars

\* a request whose positive total was lower than the stored one has answered
C1_Witness ==
  /\ last.impl = "card"
  /\ 0 < last.calculatedTotalStars
  /\ last.calculatedTotalStars < last.highestStoredStars
  /\ last.totalStars = last.highestStoredStars

\* C2: a reconciling request with key k and total calculated changes the
\* cache only by cache[k] = calculated, exactly when calculated > stored (or
\* calculated = stored > 0 with the entry absent or zero); otherwise the cache
\* is unchanged. Entries of other keys are unchanged, no entry is removed,
\* and no other step changes the cache.
C2_CacheFrame ==
  [][IF CardStep
       THEN LET k == last'.cacheKey
                c == last'.calculatedTotalStars
                s == StoredBefore(k)
                absentOrZero == k \notin DOMAIN highestStarsCache
                                  \/ highestStarsCache[k] = 0
                writes == c > s \/ (c = s /\ c > 0 /\ absentOrZero)
            IN /\ writes => highestStarsCache' = Put(highestStarsCache, k, c)
               /\ ~writes => highestStarsCache' = highestStarsCache
               /\ \A x \in DOMAIN highestStarsCache :
                    /\ x \in DOMAIN highestStarsCache'
                    /\ x # k => highestStarsCache'[x] = highestStarsCache[x]
       ELSE highestStarsCache' = highestStarsCache]_vars

\* a request has written its key while another key kept its entry
C2_Witness ==
  /\ last.impl = "card"
  /\ last.write
  /\ \E x \in DOMAIN highestStarsCache : x # last.cacheKey

\* C3: no step lowers or removes the value the cache holds for a key.
C3_CacheMonotone ==
  [][\A k \in DOMAIN highestStarsCache :
       /\ k \in DOMAIN highestStarsCache'
       /\ highestStarsCache'[k] >= highestStarsCache[k]]_vars

\* a request has raised an entry that was already positive
C3_Witness ==
  /\ last.impl = "card"
  /\ last.write
  /\ last.highestStoredStars > 0
  /\ highestStarsCache[last.cacheKey] > last.highestStoredStars

\* C4: for every key, the total shown by a request is never less than the
\* total shown by the request for the same key that reconciled before it.
C4_ShownMonotone ==
  [][\A k \in Keys : shown'[k] >= shown[k]]_vars

\* for a key that was not seeded, a request with a lower total than an
\* earlier one has answered, after a positive total had been seen
C4_Witness ==
  /\ last.impl = "card"
  /\ last.cacheKey \notin DOMAIN initializeCacheFromEnv(env)
  /\ last.calculatedTotalStars < last.highestStoredStars
  /\ shown[last.cacheKey] = last.highestStoredStars

\* C5: a request whose calculated total is 0 leaves the cache as it was and
\* shows exactly the value stored for its key (0 if there is none); so does
\* every one of a run of such requests.
C5_ZeroIdempotent ==
  [][CardStep /\ last'.calculatedTotalStars = 0 =>
       /\ highestStarsCache' = highestStarsCache
       /\ last'.totalStars = StoredBefore(last'.cacheKey)
       /\ res'.card.rows[1].value = StoredBefore(last'.cacheKey)]_vars

\* a request with total 0 has shown a positive stored value
C5_Witness ==
  /\ last.impl = "card"
  /\ last.calculatedTotalStars = 0
  /\ last.highestStoredStars > 0
  /\ res.card.rows[1].value = last.highestStoredStars

\* C6 as stated: the card is sent with no-store exactly when the total shown
\* is 0 or this request did not write its calculated total into the cache,
\* and with the long max-age otherwise.
C6_Original ==
  last.impl = "card" =>
    /\ res.cacheControl \in {NoStore, LongMaxAge}
    /\ res.cacheControl = NoStore <=> (last.totalStars = 0 \/ ~last.write)

\* C6 amended: the card is sent with no-store exactly when the total shown is
\* 0 or the calculated total is lower than the stored one, and with the long
\* max-age otherwise; a request with calculated > stored is cacheable, one
\* with calculated = 0 < stored is not.
C6_CacheControl ==
  last.impl = "card" =>
    LET c == last.calculatedTotalStars
        s == last.highestStoredStars
    IN /\ res.cacheControl \in {NoStore, LongMaxAge}
       /\ res.cacheControl = NoStore <=> (last.totalStars = 0 \/ c < s)
       /\ c > s => res.cacheControl = LongMaxAge
       /\ c = 0 /\ s > 0 => res.cacheControl = NoStore

\* a request whose total equals the stored one is sent as cacheable although
\* it wrote nothing
C6_Witness ==
  /\ last.impl = "card"
  /\ last.calculatedTotalStars = last.highestStoredStars
  /\ last.calculatedTotalStars > 0
  /\ ~last.write
  /\ res.cacheControl = LongMaxAge

\* C7: whatever the requests of the three fetches end with, the handler
\* does not throw: the only response of a card request is the one it sends
\* when it ends, an SVG card of type image/svg+xml, and never the 500 of the
\* route's catch.
C7_AlwaysDegrade ==
  /\ [](res.status # 500)
  /\ [](handler.pc = "done" =>
          /\ res.kind = "svg"
          /\ res.contentType = SvgType
          /\ res.status = 200)
  /\ [][res' # res => handler.pc = "awaiting" /\ handler'.pc = "done"]_vars

\* a request has ended with a card after every one of its requests failed
C7_Witness ==
  /\ handler.pc = "done"
  /\ res.kind = "svg"
  /\ \A f \in {"personal", "org"} :
       star[f].attempt = Retries /\ star[f].response.kind = "error"
  /\ contrib.sent = <<"private", "public">>
  /\ contrib.response = NoPost

SleptBefore(a) == BackoffUnit * ((a * (a - 1)) \div 2)

\* C9: a star fetch sends at most 3 requests, one per attempt. It returns
\* the stars of the first response that has a positive number; after an
\* error, a malformed payload or a zero it sleeps attempt x 1s and then
\* tries again, if the attempt was not the 3rd; after the 3rd it returns 0
\* without sleeping or sending again.
C9_RetryBackoff ==
  \A f \in {"personal", "org"} :
    LET t == star[f]
        positive == t.response.kind = "number" /\ t.response.stars > 0
    IN /\ t.sent <= 3
       /\ t.sent = t.attempt
       /\ t.phase = "request" => t.slept = SleptBefore(t.attempt)
       /\ t.phase = "backoff" =>
            /\ ~positive
            /\ t.attempt < 3
            /\ t.wait = 1000 * t.attempt
            /\ t.slept = SleptBefore(t.attempt)
       /\ t.phase = "done" =>
            /\ t.slept = SleptBefore(t.attempt)
            /\ positive => t.result.value = t.response.stars
            /\ ~positive => t.attempt = 3 /\ t.result.value = 0

\* a fetch has returned 0 after its 3rd attempt, having slept 1s and 2s,
\* and another sleeps 2s after a zero on its 2nd attempt
C9_Witness ==
  /\ star["personal"].phase = "done"
  /\ star["personal"].sent = 3
  /\ star["personal"].slept = 3000
  /\ star["personal"].result.value = 0
  /\ star["org"].phase = "backoff"
  /\ star["org"].wait = 2000
  /\ star["org"].response = StarOutcome("number", 0)

\* C10: without a credential the contribution fetch has returned the
\* zero-filled result as soon as it is called, having sent no request and
\* thrown nothing, and the request ends with an SVG card whose commits, PRs,
\* issues and contributed-to values are 0.
C10_NoCredential ==
  Falsy(GITHUB_TOKEN) /\ handler.pc # "idle" =>
    /\ contrib.phase = "done"
    /\ contrib.sent = <<>>
    /\ contrib.result = Return(ZeroContributions)
    /\ handler.pc = "done" =>
         /\ res.kind = "svg"
         /\ res.status = 200
         /\ \A i \in 2..5 : res.card.rows[i].value = 0

\* a request has ended without a credential; its star total is positive
C10_Witness ==
  /\ Falsy(GITHUB_TOKEN)
  /\ handler.pc = "done"
  /\ res.kind = "svg"
  /\ res.card.rows[1].value > 0

\* a query has failed: its request was rejected (no response), or its
\* response carries API errors or lacks the contribution collection of the
\* account
QueryFailed(o) ==
  o.kind \in {"none", "reject", "nobody"} \/ o.errors \/ o.data # "full"

\* C11 as stated: with a credential the contribution fetch sends the private
\* query first and at most one more request, the public query. The public
\* query is out only after the private query failed (its request was
\* rejected or its response carries API errors or no contribution data), and
\* the fetch ends without the public query only if the private query did
\* not fail.
C11_PrivateThenPublic ==
  ~Falsy(GITHUB_TOKEN) /\ handler.pc # "idle" =>
    /\ contrib.sent \in {<<"private">>, <<"private", "public">>}
    /\ contrib.phase = "private" => contrib.sent = <<"private">>
    /\ contrib.phase = "public" =>
         contrib.sent = <<"private", "public">> /\ QueryFailed(contrib.response)
    /\ contrib.phase = "done" /\ contrib.sent = <<"private">> =>
         ~QueryFailed(contrib.response)

\* C12: the contribution fetch ends by returning, never by throwing. It
\* returns the zero-filled result if both queries failed, if the response it
\* uses carries API errors, or if that response lacks the account or its
\* contribution collection; otherwise it returns the four counters of the
\* response it uses.
C12_ContributionsTotal ==
  contrib.phase = "done" /\ ~Falsy(GITHUB_TOKEN) =>
    LET r == contrib.response
        bothFailed == r = NoPost
        degraded == bothFailed \/ r.errors \/ r.data # "full"
    IN /\ contrib.result.kind = "return"
       /\ degraded => contrib.result.value = ZeroContributions
       /\ ~degraded =>
            contrib.result.value =
              [totalCommits |-> r.coll.totalCommitContributions,
               totalPRs |-> r.coll.totalPullRequestContributions,
               totalIssues |-> r.coll.totalIssueContributions,
               contributedTo |-> r.coll.totalRepositoriesWithContributedCommits]

\* the fetch has returned zeros from a public response that carries API
\* errors together with contribution data, after the private query failed
C12_Witness ==
  /\ contrib.phase = "done"
  /\ contrib.sent = <<"private", "public">>
  /\ contrib.response.errors
  /\ contrib.response.data = "full"
  /\ contrib.result = Return(ZeroContributions)

\* the three fetches of the request have all ended
AllSettled ==
  /\ \A f \in {"personal", "org"} : star[f].phase = "done"
  /\ contrib.phase = "done"

\* C13: from the moment the handler awaits, each of the three fetches has
\* been started (the star fetches have sent a request, the contribution
\* fetch has sent one or has returned for lack of a credential). A step of a
\* fetch leaves the cache, the response and the handler's locals as they
\* are; the cache is read (into the locals) or written, and a response is
\* sent, only by the step of the handler that follows the await, and that
\* step is taken only when all three fetches have ended.
C13_AwaitAll ==
  [][/\ handler'.pc = "awaiting" =>
          /\ \A f \in {"personal", "org"} :
               star'[f].phase # "idle" /\ star'[f].sent >= 1
          /\ contrib'.phase # "idle"
     /\ star' # star \/ contrib' # contrib =>
          /\ highestStarsCache' = highestStarsCache
          /\ res' = res /\ last' = last /\ shown' = shown
     /\ \/ highestStarsCache' # highestStarsCache
        \/ res' # res \/ last' # last \/ shown' # shown
        \/ handler'.pc = "done" /\ handler.pc # "done"
        => /\ handler.pc = "awaiting"
           /\ AllSettled
           /\ star' = star /\ contrib' = contrib]_vars

\* the handler has answered and written the cache after fetches that ended
\* at different times: one after three attempts, one after a single
\* attempt, and the contribution fetch after both of its queries
C13_Witness ==
  /\ handler.pc = "done"
  /\ last.impl = "card"
  /\ last.write
  /\ star["personal"].sent = 3
  /\ star["org"].sent = 1
  /\ contrib.sent = <<"private", "public">>

\* the value the cache holds for k after the step (0 if it holds none)
StoredAfter(k) ==
  IF k \in DOMAIN highestStarsCache' THEN highestStarsCache'[k] ELSE 0

\* C14: with any number of requests in flight whose fetch phases overlap,
\* the requests reconcile one per step, in any order. The stored value a
\* request decides with is the value the cache holds for its key at that
\* very step, and the step leaves for the key the maximum of that value and
\* the request's calculated total; no step lowers the value of any key. So
\* no update is lost, and when all requests have answered the cache holds
\* for each key the maximum of its prior value and their calculated totals.
C14_NoLostUpdate ==
  [][/\ \A k \in Keys \cup DOMAIN highestStarsCache :
          StoredAfter(k) >= StoredBefore(k)
     /\ CardStep =>
          LET k == last'.cacheKey
          IN /\ Load(inflight') = Load(inflight) - 1
             /\ last'.highestStoredStars = StoredBefore(k)
             /\ StoredAfter(k) =
                  Max(StoredBefore(k), last'.calculatedTotalStars)]_vars

\* of two requests for one key that were in flight together, the one with
\* the lower total has answered last, and the cache holds the total the
\* other one wrote
C14_Witness ==
  /\ Load(inflight) = 0
  /\ last.impl = "card"
  /\ last.cacheKey \notin DOMAIN initializeCacheFromEnv(env)
  /\ 0 < last.calculatedTotalStars
  /\ last.calculatedTotalStars < last.highestStoredStars
  /\ highestStarsCache[last.cacheKey] = last.highestStoredStars
  /\ res.cacheControl = NoStore

\* C15: a request with test = "true" is answered at once with status 200
\* and a JSON payload: the message, a timestamp, whether the credential is
\* set, and the query of the request. The step sends no SVG card, starts no
\* fetch, leaves the cache as it is and computes nothing from it.
C15_TestShortCircuit ==
  [][last'.impl = "test" /\ (res' # res \/ last' # last) =>
       /\ res'.kind = "json"
       /\ res'.status = 200
       /\ res'.contentType = JsonType
       /\ res'.contentType # SvgType
       /\ res'.card = NoCard
       /\ res'.info.message = "Test endpoint working"
       /\ res'.info.timestamp \in Timestamps
       /\ res'.info.githubToken =
            (IF GITHUB_TOKEN \in {Undefined, <<>>} THEN "Not set" ELSE "Set")
       /\ res'.info.query \in Queries
       /\ res'.info.query.test = <<"true">>
       /\ highestStarsCache' = highestStarsCache
       /\ last' = [NoLocals EXCEPT !.impl = "test"]
       /\ inflight' = inflight
       /\ shown' = shown
       /\ handler' = handler /\ star' = star /\ contrib' = contrib]_vars

\* a test request for another user has been answered while a card request
\* awaits its fetches and the cache holds an entry, and the credential is
\* the empty string
C15_Witness ==
  /\ last.impl = "test"
  /\ res.kind = "json"
  /\ res.info.query = Query(OtherUser, Undefined, <<"true">>)
  /\ res.info.githubToken = "Not set"
  /\ GITHUB_TOKEN = <<>>
  /\ Load(inflight) > 0
  /\ DOMAIN highestStarsCache # {}

\* C16: when every outbound call settles, a card request that awaits its
\* fetches ends by sending its card. Each star fetch sends at most 3
\* requests and sleeps at most 3 seconds in all, the contribution fetch
\* sends at most 2 requests, and a fetch that has used up its attempts has
\* returned a value (0, or the zero-filled counters) and has not thrown.
C16_Responds ==
  /\ [](\A f \in {"personal", "org"} :
          /\ star[f].sent <= Retries
          /\ star[f].slept + star[f].wait <= 3 * BackoffUnit
          /\ star[f].phase = "done" => star[f].result.kind = "return")
  /\ [](/\ Len(contrib.sent) <= 2
        /\ contrib.phase = "done" => contrib.result.kind = "return")
  /\ (handler.pc = "awaiting") ~>
       (handler.pc = "done" /\ res.kind = "svg" /\ res.status = 200)

\* a request has ended with its card after each of its fetches had used up
\* its requests: the star fetches after three answers of zero stars and
\* three seconds of sleep, the contribution fetch after two rejected queries
C16_Witness ==
  /\ handler.pc = "done"
  /\ res.kind = "svg"
  /\ \A f \in {"personal", "org"} :
       /\ star[f].sent = Retries
       /\ star[f].slept = 3 * BackoffUnit
       /\ star[f].response = StarOutcome("number", 0)
       /\ star[f].result = Return(0)
  /\ contrib.sent = <<"private", "public">>
  /\ contrib.response = NoPost
  /\ contrib.result = Return(ZeroContributions)

\* C17: in the card a request sends, the calculated star total is what the
\* personal star fetch returned plus what the organization star fetch
\* returned, and the commits, PRs, issues and contributed-to values are the
\* four counters the contribution fetch of the personal account returned;
\* the only fetch made for the organization is a star fetch.
C17_Aggregation ==
  handler.pc = "done" =>
    LET c == contrib.result.value
    IN /\ last.calculatedTotalStars =
            star["personal"].result.value + star["org"].result.value
       /\ res.card.rows[1].value =
            Max(last.calculatedTotalStars, last.highestStoredStars)
       /\ res.card.rows[2].value = c.totalCommits
       /\ res.card.rows[3].value = c.totalPRs
       /\ res.card.rows[4].value = c.totalIssues
       /\ res.card.rows[5].value = c.contributedTo
       /\ DOMAIN star = {"personal", "org"}

\* a request has ended whose two star fetches returned positive counts and
\* whose contribution fetch returned counters that are not zero
C17_Witness ==
  /\ handler.pc = "done"
  /\ star["personal"].result.value > 0
  /\ star["org"].result.value > 0
  /\ last.calculatedTotalStars > star["personal"].result.value
  /\ contrib.result.value.totalCommits > 0
  /\ res.card.rows[2].value = contrib.result.value.totalCommits

\* the variable of the environment whose name is the prefix followed by k
SeedName(k) == <<Prefix>> \o k

\* the variable n seeds the cache: its name starts with the prefix and its
\* value parses to an integer greater than 0
Seeds(n) ==
  /\ n # <<>> /\ n[1] = Prefix
  /\ ~parseInt(env[n]).isNaN
  /\ parseInt(env[n]).n > 0

\* C18: when the module is loaded, the cache holds exactly one entry for
\* each environment variable whose name starts with HIGHEST_STARS_ and whose
\* value parses to an integer greater than 0: the name without the prefix
\* is mapped to that integer. Variables without the prefix, or with a value
\* that is not a number, is zero or is negative, create no entry. The first
\* request whose key is the rest of the name of a seeding variable decides
\* with the seeded integer as its stored value.
C18_Seeding ==
  /\ \A n \in DOMAIN env :
       Seeds(n) =>
         /\ Tail(n) \in DOMAIN highestStarsCache
         /\ highestStarsCache[Tail(n)] = parseInt(env[n]).n
  /\ \A k \in DOMAIN highestStarsCache :
       SeedName(k) \in DOMAIN env /\ Seeds(SeedName(k))
  /\ [][CardStep =>
         LET k == last'.cacheKey
         IN SeedName(k) \in DOMAIN env /\ Seeds(SeedName(k)) /\ shown[k] = 0 =>
              /\ last'.highestStoredStars = parseInt(env[SeedName(k)]).n
              /\ last'.totalStars =
                   Max(last'.calculatedTotalStars,
                       parseInt(env[SeedName(k)]).n)]_vars

\* In an environment with a seeding variable and with variables that seed
\* nothing (a zero, a negative and a non-numeric value, a name without the
\* prefix), a request for the seeded key has decided with the seeded value.
C18_Witness ==
  /\ last.impl = "card"
  /\ SeedName(last.cacheKey) \in DOMAIN env
  /\ last.highestStoredStars = parseInt(env[SeedName(last.cacheKey)]).n
  /\ last.highestStoredStars = 3
  /\ \E n \in DOMAIN env : n[1] = Prefix /\ parseInt(env[n]) = Num(0)
  /\ \E n \in DOMAIN env : n[1] = Prefix /\ parseInt(env[n]) = Num(0 - 2)
  /\ \E n \in DOMAIN env : n[1] = Prefix /\ parseInt(env[n]) = NaN
  /\ \E n \in DOMAIN env : n[1] = "LOWEST_STARS_" /\ parseInt(env[n]) = Num(7)
  /\ DOMAIN highestStarsCache = {last.cacheKey}

\* C19 as stated: on the local server, whose route calls the handler of
\* api/index.js, a request with test = "true" is answered by the test
\* endpoint: no stats are fetched for it (it never awaits fetches), and the
\* step that answers it sends the JSON status payload that tells whether
\* the credential is set, not the SVG card.
C19_LocalTestEndpoint ==
  [][\A q \in Queries :
       q.test = <<"true">> =>
         /\ legacyInflight'[q] <= legacyInflight[q]
         /\ legacyInflight'[q] < legacyInflight[q] =>
              /\ res'.kind = "json"
              /\ res'.info.githubToken \in {"Set", "Not set"}]_vars

\* the cache key of a request whose query carries the identifiers p
KeyOfPair(p) ==
  cacheKeyOf(OrDefault(p[1], DefaultUser), OrDefault(p[2], DefaultOrg))

\* C21 as stated: the cache entry a request for (user, org) reads and
\* writes belongs to that pair alone: when a request reconciles, no request
\* in flight for a different (user, org) pair has the same cache key, so it
\* will neither read what this request stores nor have stored what this
\* request reads.
C21_PairIsolation ==
  [][CardStep =>
       \A p \in Pairs, q \in Pairs :
         (inflight'[p] < inflight[p] /\ q # p /\ inflight[q] > 0) =>
           KeyOfPair(q) # last'.cacheKey]_vars

\* C22: a card sent with the long max-age shows a star total that is
\* greater than 0 and is the total calculated by this request; a card that
\* shows the stored value in place of a lower (or zero) calculated total is
\* sent with no-store.
C22_CacheableIsFresh ==
  last.impl = "card" =>
    /\ res.cacheControl = LongMaxAge =>
         /\ res.card.rows[1].value > 0
         /\ res.card.rows[1].value = last.calculatedTotalStars
    /\ (/\ last.calculatedTotalStars < last.highestStoredStars
        /\ res.card.rows[1].value = last.highestStoredStars) =>
         res.cacheControl = NoStore

\* a card that shows the stored value in place of a lower positive total
\* has been sent with no-store
C22_Witness ==
  /\ last.impl = "card"
  /\ 0 < last.calculatedTotalStars
  /\ last.calculatedTotalStars < last.highestStoredStars
  /\ res.card.rows[1].value = last.highestStoredStars
  /\ res.cacheControl = NoStore

\* C23: once a card request has reconciled, the star total of the card it
\* has sent is the value the cache then holds for its key, or 0 if the cache
\* holds no entry for the key.
C23_ShownIsStored ==
  last.impl = "card" =>
    /\ res.kind = "svg"
    /\ res.card.rows[1].value =
         (IF last.cacheKey \in DOMAIN highestStarsCache
            THEN highestStarsCache[last.cacheKey] ELSE 0)

\* a request has shown the total it has just stored for a key that had no
\* entry, while another key has one
C23_Witness ==
  /\ last.impl = "card"
  /\ last.write
  /\ last.highestStoredStars = 0
  /\ last.cacheKey \in DOMAIN highestStarsCache
  /\ res.card.rows[1].value = highestStarsCache[last.cacheKey]
  /\ DOMAIN highestStarsCache # {last.cacheKey}

\* C24: every value the cache holds is an integer greater than 0, whether
\* it was seeded from the environment or stored by a request; a key for
\* which nothing positive was seen or seeded has no entry.
C24_CachePositive ==
  \A k \in DOMAIN highestStarsCache :
    /\ highestStarsCache[k] \in Nat
    /\ highestStarsCache[k] > 0

\* In an environment with a zero and a negative seed, a request with total
\* 0 for a key without entry has answered and left the key without entry,
\* while the cache holds the positive seed.
C24_Witness ==
  /\ last.impl = "card"
  /\ last.calculatedTotalStars = 0
  /\ last.highestStoredStars = 0
  /\ last.cacheKey \notin DOMAIN highestStarsCache
  /\ DOMAIN highestStarsCache # {}
  /\ \E n \in DOMAIN env : n[1] = Prefix /\ parseInt(env[n]) = Num(0)
  /\ \E n \in DOMAIN env : n[1] = Prefix /\ parseInt(env[n]) = Num(0 - 2)

\* C25 as stated: a card of the handler of api/index.js whose star total is
\* zero is sent with no-store, not with the long max-age.
C25_LegacyZeroNoStore ==
  (last.impl = "legacy" /\ res.kind = "svg" /\ res.card.rows[1].value = 0) =>
    /\ res.cacheControl = NoStore
    /\ res.cacheControl # LongMaxAge

\* C26: in every card of generateSVG, whatever the five values are, the
\* canvas is 240 high, the title sits at the top margin
\* floor((240 - (25 + 5 * 22)) / 2), and row i (i = 0..4) sits at
\* topMargin + 25 + 22 * (i + 0.5). The rows are 22 apart in increasing
\* order, all below the title and strictly inside the canvas. Positions are
\* compared in half pixels.
C26_Layout ==
  (last.impl = "card" /\ res.kind = "svg") =>
    LET card == res.card
        margin == (240 - (25 + 5 * 22)) \div 2
    IN /\ card.height = 240
       /\ card.titleY2 = 2 * margin
       /\ Len(card.rows) = 5
       /\ \A i \in 0..4 :
            /\ card.rows[i + 1].y2 = 2 * (margin + 25) + 22 * (2 * i + 1)
            /\ card.rows[i + 1].y2 > card.titleY2
            /\ card.rows[i + 1].y2 > 0
            /\ card.rows[i + 1].y2 < 2 * card.height
       /\ 0 <= card.titleY2 /\ card.titleY2 < 2 * card.height
       /\ \A i \in 1..4 : card.rows[i + 1].y2 - card.rows[i].y2 = 2 * 22

\* a card with a positive star total and contribution counters that are
\* not zero has been rendered
C26_Witness ==
  /\ last.impl = "card"
  /\ res.kind = "svg"
  /\ res.card.rows[1].value > 0
  /\ res.card.rows[2].value > 0
  /\ res.card.rows[5].y2 = 352

====
